---- MODULE Spec2Model ----
(***************************************************************************)
(* Scenario orchestration of the smart-treasury-agent backend:             *)
(* scenariosController.runScenarios (admission, record creation, detached  *)
(* background task), the stale-run sweep, processScenarios and             *)
(* processStandardScenario.  Every await of the source is a point where    *)
(* other requests, background tasks and the sweep timer may interleave.    *)
(***************************************************************************)
EXTENDS Integers, FiniteSets, Sequences, TLC

\* ---------------------------------------------------------------- bounds
\* Number of POST /scenarios/run requests that may arrive.
NumRequests == 2
\* Requests that arrive in the single-batch specification SpecBatch.
NumBatchRequests == 1
\* Largest configured value of MAX_CONCURRENT_SCENARIOS.
MaxCapacity == 1

\* Largest number of recommendation_outcomes rows.
MaxOutcomes == 12
\* Largest mean yield error, in basis points.
MaxYieldError == 100
\* Calls of adjustConfidenceBasedOnHistory in one behaviour.
MaxCalls == 2
\* Transfer rows and concurrent execute calls; the balance every account
\* opens with.
NumTransfers == 2
NumExecutes == 2
OpeningBalance == 100

\* ------------------------------------------------------ program constants
\* Stale threshold of the sweep, in minutes (5 * 60 * 1000 ms).
STALE_MINUTES == 5
\* getInsights reads the newest 100 rows.
WINDOW_LIMIT == 100
\* Fewer recommendations than this leave the confidence as it is.
MIN_RECOMMENDATIONS == 10
\* A mean yield error below this many basis points boosts the confidence.
ACCURATE_BPS == 15
\* A mean yield error above this many basis points lowers the confidence.
INACCURATE_BPS == 50

Requests == 1..NumRequests

\* The modes of the default request body, in the order of that body.
ModeOrder == <<"conservative", "balanced", "aggressive">>
Modes == {ModeOrder[i] : i \in 1..Len(ModeOrder)}
Order(m) == CHOOSE i \in 1..Len(ModeOrder) : ModeOrder[i] = m

NoError == "none"
NoResultError == "Simulation failed to produce results"
SimulationError == "Parallel simulations failed"
StoreError == "store error"
GeneratorError == "generator error"
TypeErrorUndefined == "Cannot read properties of undefined"

\* What the Simulation Provider returned for one mode.
\* "zeroTransfer": transferDetails is present and its amount is 0.
ResultKinds == {"missing", "noTransfer", "zeroTransfer", "transfer"}
\* The results whose transferDetails, when present, names a positive amount.
PositiveAmountKinds == ResultKinds \ {"zeroTransfer"}
\* simulationResult && simulationResult.transferDetails
HasTransferDetails(kind) == kind \in {"zeroTransfer", "transfer"}
\* No Map yet: runParallelSimulations has not returned.
NoResults == [m \in {ModeOrder[i] : i \in 1..Len(ModeOrder)} |-> "unknown"]

VARIABLES
    MAX_CONCURRENT_RUNS,     \* parseInt(process.env.MAX_CONCURRENT_SCENARIOS || "5")
    useAgenticWorkflow,      \* process.env.ENABLE_AGENTIC_WORKFLOW === "true"
    useMultiAgentDebate,     \* process.env.ENABLE_MULTI_AGENT_DEBATE === "true"
    useHistoricalLearning,   \* process.env.ENABLE_HISTORICAL_LEARNING !== "false"
    activeRuns,              \* Map runId -> minutes elapsed since its Date
    pc,                      \* position of each runScenarios call
    response,                \* the HTTP response of each call
    modes,                   \* req.body.modes of each call
    runs,                    \* scenario_runs rows, by batch and mode
    ppc,                     \* position of each processScenarios call
    results,                 \* Map returned by runParallelSimulations
    cur,                     \* the scenario processStandardScenario works on
    spc,                     \* position inside processStandardScenario
    caught,                  \* the error captured by processScenarios' catch
    inflight,                \* "running" updates issued and not yet settled
    inflightFail,            \* "failed" updates of the catch block not yet settled
    outcomeId,               \* outcomeId of the primary (balanced) run
    outcomes,                \* recommendation_outcomes rows, by batch and mode
    linked,                  \* scenario_runs.outcome_id set, by batch and mode
    generated,               \* modes for which generateRecommendation was called
    adjusted,                \* modes whose confidence went through the adjuster
    pipeline,                \* multi-stage pipeline invoked for the batch
    escaped,                 \* processScenarios rejected (its catch block threw)
    finallyKeys,             \* keys for which .finally ran activeRuns.delete
    sweptKeys,               \* keys removed by the stale sweep
    debate,                  \* one call of multiAgentDebateService.conductDebate
    workflow,                \* one call of agenticWorkflowService.executeWorkflow
    adjuster,                \* calls of adjustConfidenceBasedOnHistory and their store
    accounts,                \* accounts.balance, by account id
    transfers,               \* transfers rows, by transfer id
    executing                \* calls of transfersController.execute

config == <<MAX_CONCURRENT_RUNS, useAgenticWorkflow, useMultiAgentDebate,
            useHistoricalLearning>>
handler == <<pc, response, modes>>
batch == <<ppc, results, cur, spc, caught, inflight, inflightFail, outcomeId,
           generated, adjusted, pipeline, escaped>>
store == <<runs, outcomes, linked>>
admission == <<activeRuns, finallyKeys, sweptKeys>>
ledger == <<accounts, transfers, executing>>
services == <<debate, workflow, adjuster, ledger>>
controller == <<config, handler, batch, store, admission>>
vars == <<config, handler, batch, store, admission, services>>

NoRun == [status |-> "none", completed_at |-> FALSE, metrics |-> FALSE,
          recommendation |-> FALSE, error_message |-> NoError]
NoResponse == [status |-> 0, activeRuns |-> 0]

\* activeRuns.size
Size == Cardinality(DOMAIN activeRuns)

InitWith(arriving, capacities, strategyFlags, learningFlags) ==
    /\ MAX_CONCURRENT_RUNS \in capacities
    /\ useAgenticWorkflow \in strategyFlags
    /\ useMultiAgentDebate \in strategyFlags
    /\ useHistoricalLearning \in learningFlags
    /\ activeRuns = << >>
    /\ pc = [r \in Requests |-> IF r \in arriving THEN "idle" ELSE "absent"]
    /\ response = [r \in Requests |-> NoResponse]
    /\ modes = [r \in Requests |-> {}]
    /\ runs = [r \in Requests |-> [m \in Modes |-> NoRun]]
    /\ ppc = [r \in Requests |-> "none"]
    /\ results = [r \in Requests |-> NoResults]
    /\ cur = [r \in Requests |-> "none"]
    /\ spc = [r \in Requests |-> "none"]
    /\ caught = [r \in Requests |-> NoError]
    /\ inflight = [r \in Requests |-> {}]
    /\ inflightFail = [r \in Requests |-> {}]
    /\ outcomeId = [r \in Requests |-> FALSE]
    /\ outcomes = [r \in Requests |-> [m \in Modes |-> 0]]
    /\ linked = [r \in Requests |-> [m \in Modes |-> FALSE]]
    /\ generated = [r \in Requests |-> {}]
    /\ adjusted = [r \in Requests |-> {}]
    /\ pipeline = [r \in Requests |-> "none"]
    /\ escaped = [r \in Requests |-> FALSE]
    /\ finallyKeys = {}
    /\ sweptKeys = {}

\* ------------------------------------------------------------ runScenarios

Respond(r, status) ==
    /\ pc' = [pc EXCEPT ![r] = "responded"]
    /\ response' = [response EXCEPT ![r] = [status |-> status, activeRuns |-> 0]]

\* The capacity check with > in place of >=.
AtCapacityOffByOne == Size > MAX_CONCURRENT_RUNS

\* The capacity check of runScenarios.
AtCapacity == Size >= MAX_CONCURRENT_RUNS

\* A request arrives (requests are numbered in their order of arrival): the
\* body is read and the capacity is checked, then the handler awaits the
\* health check.
Arrive(r, ms) ==
    /\ pc[r] = "idle"
    /\ \A q \in Requests : q < r => pc[q] # "idle"
    /\ modes' = [modes EXCEPT ![r] = ms]
    /\ IF AtCapacity
         THEN /\ pc' = [pc EXCEPT ![r] = "responded"]
              /\ response' = [response EXCEPT
                               ![r] = [status |-> 429, activeRuns |-> Size]]
         ELSE /\ pc' = [pc EXCEPT ![r] = "health"]
              /\ UNCHANGED response
    /\ UNCHANGED <<config, services, batch, store, admission>>

\* pythonMicroserviceClient.healthCheck settles.
HealthCheck(r, isHealthy) ==
    /\ pc[r] = "health"
    /\ IF isHealthy
         THEN /\ pc' = [pc EXCEPT ![r] = "fetch"]
              /\ UNCHANGED response
         ELSE Respond(r, 503)
    /\ UNCHANGED <<config, services, modes, batch, store, admission>>

\* getAccounts, getForecast and getActivePolicy settle.
FetchData(r, fetched) ==
    /\ pc[r] = "fetch"
    /\ CASE fetched = "ok" -> /\ pc' = [pc EXCEPT ![r] = "create"]
                              /\ UNCHANGED response
         [] fetched = "noPolicy" -> Respond(r, 400)
         [] fetched = "noAccounts" -> Respond(r, 400)
         [] OTHER -> Respond(r, 500)
    /\ UNCHANGED <<config, services, modes, batch, store, admission>>

Pending == [NoRun EXCEPT !.status = "pending"]

\* runScenarios awaiting processScenarios before it answers: the task is
\* started and no response is sent yet.
CreateRecordsAwaitsTask(r, created) ==
    /\ pc[r] = "create"
    /\ runs' = [runs EXCEPT ![r] =
                  [m \in Modes |-> IF m \in created THEN Pending ELSE @[m]]]
    /\ IF created = modes[r]
         THEN /\ activeRuns' = [k \in DOMAIN activeRuns \cup {r} |->
                                  IF k = r THEN 0 ELSE activeRuns[k]]
              /\ ppc' = [ppc EXCEPT ![r] = "markRunning"]
              /\ inflight' = [inflight EXCEPT ![r] = modes[r]]
              /\ pc' = [pc EXCEPT ![r] = "awaitTask"]
              /\ UNCHANGED response
         ELSE /\ Respond(r, 500)
              /\ UNCHANGED <<activeRuns, ppc, inflight>>
    /\ UNCHANGED <<config, services, modes, results, cur, spc, caught, inflightFail,
                   outcomeId, generated, adjusted, pipeline, escaped, outcomes, linked,
                   finallyKeys, sweptKeys>>

\* Promise.all(createScenarioRun) settles with the rows in `created` inserted.
\* When every insert succeeded the slot is taken, processScenarios is started
\* (it issues its "running" updates) and the accepted response is sent.
CreateRecords(r, created) ==
    /\ pc[r] = "create"
    /\ runs' = [runs EXCEPT ![r] =
                  [m \in Modes |-> IF m \in created THEN Pending ELSE @[m]]]
    /\ IF created = modes[r]
         THEN /\ activeRuns' = [k \in DOMAIN activeRuns \cup {r} |->
                                  IF k = r THEN 0 ELSE activeRuns[k]]
              /\ ppc' = [ppc EXCEPT ![r] = "markRunning"]
              /\ inflight' = [inflight EXCEPT ![r] = modes[r]]
              /\ Respond(r, 200)
         ELSE /\ Respond(r, 500)
              /\ UNCHANGED <<activeRuns, ppc, inflight>>
    /\ UNCHANGED <<config, services, modes, results, cur, spc, caught, inflightFail,
                   outcomeId, generated, adjusted, pipeline, escaped, outcomes, linked,
                   finallyKeys, sweptKeys>>

\* ------------------------------------------------- control of a batch task

\* The task moves on to position p (scenario c, step s of it).
Goto(r, p, c, s) ==
    /\ ppc' = [ppc EXCEPT ![r] = p]
    /\ cur' = [cur EXCEPT ![r] = c]
    /\ spc' = [spc EXCEPT ![r] = s]
    /\ UNCHANGED <<caught, inflightFail, escaped, activeRuns, finallyKeys>>

\* An exception reaches the catch block of processScenarios, which issues one
\* "failed" update per scenario record of the batch.
Throw(r, err) ==
    /\ ppc' = [ppc EXCEPT ![r] = "catch"]
    /\ cur' = [cur EXCEPT ![r] = "none"]
    /\ spc' = [spc EXCEPT ![r] = "none"]
    /\ caught' = [caught EXCEPT ![r] = err]
    /\ inflightFail' = [inflightFail EXCEPT ![r] = modes[r]]
    /\ UNCHANGED <<escaped, activeRuns, finallyKeys>>

\* The release attached with .then in place of .finally: a rejected task
\* keeps its slot.
SettleThenRelease(r, esc) ==
    /\ ppc' = [ppc EXCEPT ![r] = "done"]
    /\ cur' = [cur EXCEPT ![r] = "none"]
    /\ spc' = [spc EXCEPT ![r] = "none"]
    /\ escaped' = [escaped EXCEPT ![r] = esc]
    /\ activeRuns' = IF esc THEN activeRuns
                     ELSE [k \in DOMAIN activeRuns \ {r} |-> activeRuns[k]]
    /\ finallyKeys' = IF esc THEN finallyKeys ELSE finallyKeys \cup {r}
    /\ UNCHANGED caught

\* processScenarios settles (rejected when esc); .catch(console.error) swallows
\* a rejection and .finally runs activeRuns.delete(runId).
Settle(r, esc) ==
    /\ ppc' = [ppc EXCEPT ![r] = "done"]
    /\ cur' = [cur EXCEPT ![r] = "none"]
    /\ spc' = [spc EXCEPT ![r] = "none"]
    /\ escaped' = [escaped EXCEPT ![r] = esc]
    /\ activeRuns' = [k \in DOMAIN activeRuns \ {r} |-> activeRuns[k]]
    /\ finallyKeys' = finallyKeys \cup {r}
    /\ UNCHANGED caught

StandardMode == ~useAgenticWorkflow /\ ~useMultiAgentDebate

\* The scenarios the loop of the active branch passes to an awaited call: every
\* record in the standard branch; in the workflow and debate branches the
\* records other than "balanced" that have a simulation result.
LoopScenarios(r, res) ==
    IF StandardMode
      THEN modes[r]
      ELSE {m \in modes[r] \ {"balanced"} : res[m] # "missing"}

\* The loop continues after the scenario at position k of the batch (0: from
\* the start); when no scenario is left processScenarios returns.
ContinueLoop(r, k, res) ==
    LET rest == {m \in LoopScenarios(r, res) : Order(m) > k}
    IN IF rest = {}
         THEN Settle(r, FALSE) /\ UNCHANGED inflightFail
         ELSE LET m == CHOOSE x \in rest : \A y \in rest : Order(x) <= Order(y)
              IN Goto(r, "loop", m,
                      IF res[m] = "missing" THEN "noResult" ELSE "generate")

\* After the multi-stage pipeline returned: the balanced scenario, if the batch
\* has one, is recorded for learning and completed; then the sibling loop.
AfterPipeline(r) ==
    IF "balanced" \in modes[r]
      THEN IF useHistoricalLearning /\ HasTransferDetails(results[r]["balanced"])
             THEN Goto(r, "primaryRecord", "balanced", "none")
             ELSE Goto(r, "primaryUpdate", "balanced", "none")
      ELSE ContinueLoop(r, 0, results[r])

\* ---------------------------------------------------------- updateScenarioRun

Running(run) == [run EXCEPT !.status = "running"]

\* metrics: simulationResult is dropped from the update when it is undefined.
Completed(run, hasMetrics) ==
    [run EXCEPT !.status = "completed", !.metrics = @ \/ hasMetrics,
                !.recommendation = TRUE, !.completed_at = TRUE]

\* A "failed" update that leaves completed_at out.
FailedNoCompletedAt(run, err) ==
    [run EXCEPT !.status = "failed", !.error_message = err]

Failed(run, err) ==
    [run EXCEPT !.status = "failed", !.error_message = err,
                !.completed_at = TRUE]

\* -------------------------------------------------------- processScenarios

\* One of the "running" updates issued at the start lands.
RunningLands(r, m) ==
    /\ m \in inflight[r]
    /\ inflight' = [inflight EXCEPT ![r] = @ \ {m}]
    /\ runs' = [runs EXCEPT ![r][m] = Running(@)]
    /\ UNCHANGED <<config, services, handler, ppc, results, cur, spc, caught,
                   inflightFail, outcomeId, generated, adjusted, pipeline, escaped,
                   outcomes, linked, admission>>

\* One of the "running" updates fails: Promise.all rejects at the first
\* failure, while the other updates are still on their way.
RunningFails(r, m) ==
    /\ m \in inflight[r]
    /\ inflight' = [inflight EXCEPT ![r] = @ \ {m}]
    /\ IF ppc[r] = "markRunning"
         THEN Throw(r, StoreError)
         ELSE UNCHANGED <<ppc, cur, spc, caught, inflightFail, escaped,
                          activeRuns, finallyKeys>>
    /\ UNCHANGED <<config, services, handler, results, outcomeId, generated, adjusted, pipeline,
                   store, sweptKeys>>

\* The results runParallelSimulations may return for the modes of a batch.
SimulationResults(r, kinds) ==
    {res \in [Modes -> kinds] : \A m \in Modes \ modes[r] : res[m] = "missing"}

\* Every record is running and runParallelSimulations settles: it throws, or
\* returns the Map res; then the branch of the active AI mode is entered.
Simulate(r, thrown, res) ==
    /\ ppc[r] = "markRunning"
    /\ inflight[r] = {}
    /\ IF thrown
         THEN /\ Throw(r, SimulationError)
              /\ UNCHANGED results
         ELSE /\ results' = [results EXCEPT ![r] = res]
              /\ IF useAgenticWorkflow
                   THEN Goto(r, "workflow", "none", "none")
                   ELSE IF useMultiAgentDebate
                          THEN Goto(r, "debate", "none", "none")
                          ELSE ContinueLoop(r, 0, res)
    /\ UNCHANGED <<config, services, handler, inflight, outcomeId, generated, adjusted, pipeline,
                   store, sweptKeys>>

\* agenticWorkflowService.executeWorkflow returns: each of its stages recovers
\* from a generator failure, and a missing result is read with ?. only.
ExecuteWorkflow(r) ==
    /\ ppc[r] = "workflow"
    /\ pipeline' = [pipeline EXCEPT ![r] = "workflow"]
    /\ AfterPipeline(r)
    /\ UNCHANGED <<config, services, handler, results, inflight, outcomeId, generated, adjusted,
                   store, sweptKeys>>

\* The metrics each debate stage formats into its prompt.
DebateStageMode == <<"conservative", "aggressive", "balanced">>

\* conductDebate: stage s throws a TypeError when its metrics are undefined,
\* and rejects when its generator call fails (failStage = s); no stage catches.
DebateOutcome(res, failStage) ==
    LET bad == {s \in 1..3 : res[DebateStageMode[s]] = "missing" \/ failStage = s}
    IN IF bad = {}
         THEN NoError
         ELSE LET s == CHOOSE x \in bad : \A y \in bad : x <= y
              IN IF res[DebateStageMode[s]] = "missing"
                   THEN TypeErrorUndefined
                   ELSE GeneratorError

\* multiAgentDebateService.conductDebate settles.
ConductDebate(r, failStage) ==
    /\ ppc[r] = "debate"
    /\ pipeline' = [pipeline EXCEPT ![r] = "debate"]
    /\ IF DebateOutcome(results[r], failStage) = NoError
         THEN AfterPipeline(r)
         ELSE Throw(r, DebateOutcome(results[r], failStage))
    /\ UNCHANGED <<config, services, handler, results, inflight, outcomeId, generated, adjusted,
                   store, sweptKeys>>

\* recordRecommendation for the balanced scenario settles (it never throws).
PrimaryRecord(r, ok) ==
    /\ ppc[r] = "primaryRecord"
    /\ outcomeId' = [outcomeId EXCEPT ![r] = ok]
    /\ outcomes' = [outcomes EXCEPT ![r]["balanced"] = IF ok THEN @ + 1 ELSE @]
    /\ Goto(r, "primaryUpdate", "balanced", "none")
    /\ UNCHANGED <<config, services, handler, results, inflight, generated, adjusted, pipeline,
                   runs, linked, sweptKeys>>

\* The "completed" update of the balanced scenario settles; the Galileo log
\* that follows never throws.
PrimaryUpdate(r, ok) ==
    /\ ppc[r] = "primaryUpdate"
    /\ IF ok
         THEN /\ runs' = [runs EXCEPT ![r]["balanced"] =
                            Completed(@, results[r]["balanced"] # "missing")]
              /\ IF outcomeId[r]
                   THEN Goto(r, "primaryLink", "balanced", "none")
                   ELSE ContinueLoop(r, 0, results[r])
         ELSE /\ Throw(r, StoreError)
              /\ UNCHANGED runs
    /\ UNCHANGED <<config, services, handler, results, inflight, outcomeId, generated, adjusted,
                   pipeline, outcomes, linked, sweptKeys>>

\* linkOutcomeToScenario for the balanced scenario settles (it never throws).
PrimaryLink(r, ok) ==
    /\ ppc[r] = "primaryLink"
    /\ linked' = [linked EXCEPT ![r]["balanced"] = @ \/ ok]
    /\ ContinueLoop(r, 0, results[r])
    /\ UNCHANGED <<config, services, handler, results, inflight, inflightFail, outcomeId,
                   generated, adjusted, pipeline, runs, outcomes, sweptKeys>>

\* Standard branch, no simulation result: the "failed" update settles.
NoResultFailed(r, ok) ==
    /\ ppc[r] = "loop"
    /\ spc[r] = "noResult"
    /\ IF ok
         THEN /\ runs' = [runs EXCEPT ![r][cur[r]] = Failed(@, NoResultError)]
              /\ ContinueLoop(r, Order(cur[r]), results[r])
         ELSE /\ Throw(r, StoreError)
              /\ UNCHANGED runs
    /\ UNCHANGED <<config, services, handler, results, inflight, outcomeId, generated, adjusted,
                   pipeline, outcomes, linked, sweptKeys>>

\* ------------------------------------------------- processStandardScenario

\* claudeService.generateRecommendation returns (it falls back on an error).
Generate(r) ==
    /\ ppc[r] = "loop"
    /\ spc[r] = "generate"
    /\ generated' = [generated EXCEPT ![r] = @ \cup {cur[r]}]
    /\ Goto(r, "loop", cur[r],
            IF useHistoricalLearning /\ HasTransferDetails(results[r][cur[r]])
              THEN "record" ELSE "complete")
    /\ UNCHANGED <<config, services, handler, results, inflight, outcomeId, adjusted,
                   pipeline, store, sweptKeys>>

\* recordRecommendation without its try: a failed insert reaches the catch
\* block of processScenarios.
RecordRethrows(r, ok) ==
    /\ ppc[r] = "loop"
    /\ spc[r] = "record"
    /\ outcomes' = [outcomes EXCEPT ![r][cur[r]] = IF ok THEN @ + 1 ELSE @]
    /\ IF ok THEN Goto(r, "loop", cur[r], "link") ELSE Throw(r, StoreError)
    /\ adjusted' = [adjusted EXCEPT ![r] = @ \cup {cur[r]}]
    /\ UNCHANGED <<config, services, handler, results, inflight, outcomeId, generated,
                   pipeline, runs, linked, sweptKeys>>

\* adjustConfidenceBasedOnHistory returns and recordRecommendation settles.
Record(r, ok) ==
    /\ ppc[r] = "loop"
    /\ spc[r] = "record"
    /\ outcomes' = [outcomes EXCEPT ![r][cur[r]] = IF ok THEN @ + 1 ELSE @]
    /\ Goto(r, "loop", cur[r], IF ok THEN "link" ELSE "complete")
    /\ adjusted' = [adjusted EXCEPT ![r] = @ \cup {cur[r]}]
    /\ UNCHANGED <<config, services, handler, results, inflight, outcomeId, generated,
                   pipeline, runs, linked, sweptKeys>>

\* linkOutcomeToScenario settles (it never throws).
Link(r, ok) ==
    /\ ppc[r] = "loop"
    /\ spc[r] = "link"
    /\ linked' = [linked EXCEPT ![r][cur[r]] = @ \/ ok]
    /\ Goto(r, "loop", cur[r], "complete")
    /\ UNCHANGED <<config, services, handler, results, inflight, outcomeId, generated, adjusted,
                   pipeline, runs, outcomes, sweptKeys>>

\* The Galileo log and evaluateScenarioRisk return and the "completed" update
\* settles.
Complete(r, ok) ==
    /\ ppc[r] = "loop"
    /\ spc[r] = "complete"
    /\ IF ok
         THEN /\ runs' = [runs EXCEPT ![r][cur[r]] = Completed(@, TRUE)]
              /\ Goto(r, "loop", cur[r], "evalLog")
         ELSE /\ Throw(r, StoreError)
              /\ UNCHANGED runs
    /\ UNCHANGED <<config, services, handler, results, inflight, outcomeId, generated, adjusted,
                   pipeline, outcomes, linked, sweptKeys>>

\* createEvalLog settles; processStandardScenario returns to the loop.
EvalLog(r, ok) ==
    /\ ppc[r] = "loop"
    /\ spc[r] = "evalLog"
    /\ IF ok
         THEN ContinueLoop(r, Order(cur[r]), results[r])
         ELSE Throw(r, StoreError)
    /\ UNCHANGED <<config, services, handler, results, inflight, outcomeId, generated, adjusted,
                   pipeline, store, sweptKeys>>

\* ------------------------------------------- catch block of processScenarios

\* One "failed" update of the catch block lands.  The store applies the
\* updates of one row in the order they were issued.  When the last one has
\* landed processScenarios returns.
FailedLands(r, m) ==
    /\ m \in inflightFail[r]
    /\ m \notin inflight[r]
    /\ inflightFail' = [inflightFail EXCEPT ![r] = @ \ {m}]
    /\ runs' = [runs EXCEPT ![r][m] = Failed(@, caught[r])]
    /\ IF ppc[r] = "catch" /\ inflightFail[r] = {m}
         THEN Settle(r, FALSE)
         ELSE UNCHANGED <<ppc, cur, spc, caught, escaped, activeRuns,
                          finallyKeys>>
    /\ UNCHANGED <<config, services, handler, results, inflight, outcomeId, generated, adjusted,
                   pipeline, outcomes, linked, sweptKeys>>

\* One "failed" update of the catch block fails: Promise.all rejects at the
\* first failure and the error leaves processScenarios.
FailedFails(r, m) ==
    /\ m \in inflightFail[r]
    /\ m \notin inflight[r]
    /\ inflightFail' = [inflightFail EXCEPT ![r] = @ \ {m}]
    /\ IF ppc[r] = "catch"
         THEN Settle(r, TRUE)
         ELSE UNCHANGED <<ppc, cur, spc, caught, escaped, activeRuns,
                          finallyKeys>>
    /\ UNCHANGED <<config, services, handler, results, inflight, outcomeId, generated, adjusted,
                   pipeline, store, sweptKeys>>

\* ------------------------------------------------------------- stale sweep

\* date < fiveMinutesAgo, for an entry that has seen `minutes` sweeps: the
\* timer fires once a minute.
IsStale(minutes) == minutes > STALE_MINUTES

\* The setInterval callback: a minute has passed since the last sweep.
Sweep ==
    LET stale == {k \in DOMAIN activeRuns : IsStale(activeRuns[k] + 1)}
    IN /\ activeRuns' = [k \in DOMAIN activeRuns \ stale |-> activeRuns[k] + 1]
       /\ sweptKeys' = sweptKeys \cup stale
       /\ UNCHANGED <<config, services, handler, batch, store, finallyKeys>>

\* ------------------------------------------------ historicalLearningService

\* Confidence values are counted in units of 1/600, in which 0.05, 0.15, 0.5,
\* 1.0, (15 - e) / 200 and (e - 50) / 300 are whole numbers for a whole e.
ConfidenceUnits == 600
\* The confidence written n/100 in the source.
Hundredths(n) == (n * ConfidenceUnits) \div 100

Min(a, b) == IF a <= b THEN a ELSE b
Max(a, b) == IF a >= b THEN a ELSE b

\* What getInsights returns when the read fails or finds no row.
NoInsights == [totalRecommendations |-> 0, avgYieldError |-> 0]

\* getInsights over the recommendation_outcomes rows: the newest WINDOW_LIMIT
\* rows are counted, and the yield error is averaged over the rows that have a
\* follow-up measurement (0 when there is none).
getInsights(window) ==
    IF ~window.readable \/ window.total = 0
      THEN NoInsights
      ELSE [totalRecommendations |-> Min(window.total, WINDOW_LIMIT),
            avgYieldError |-> IF window.followups THEN window.yieldError ELSE 0]

\* The boost with the cap of the penalty (0.15) in place of its own (0.05).
BoostCappedAsPenalty(avgYieldError) ==
    Min(Hundredths(15), ((ACCURATE_BPS - avgYieldError) * ConfidenceUnits) \div 200)

\* Math.min(0.05, (15 - avgYieldError) / 200)
Boost(avgYieldError) ==
    Min(Hundredths(5), ((ACCURATE_BPS - avgYieldError) * ConfidenceUnits) \div 200)

\* Math.min(0.15, (avgYieldError - 50) / 300)
Penalty(avgYieldError) ==
    Min(Hundredths(15), ((avgYieldError - INACCURATE_BPS) * ConfidenceUnits) \div 300)

\* The sample-count rule applied to less than 12 recommendations.
BelowMinimumOffByTwo(insights) == insights.totalRecommendations < MIN_RECOMMENDATIONS + 2

\* insights.totalRecommendations < 10
BelowMinimum(insights) == insights.totalRecommendations < MIN_RECOMMENDATIONS

\* adjustConfidenceBasedOnHistory, after its getInsights call returned.
adjustConfidenceBasedOnHistory(baseConfidence, insights) ==
    LET e == insights.avgYieldError
    IN IF BelowMinimum(insights)
         THEN [adjusted |-> baseConfidence, reason |-> "building"]
         ELSE IF e < ACCURATE_BPS
           THEN [adjusted |-> Min(Hundredths(100), baseConfidence + Boost(e)),
                 reason |-> "high"]
           ELSE IF e > INACCURATE_BPS
             THEN [adjusted |-> Max(Hundredths(50), baseConfidence - Penalty(e)),
                   reason |-> "low"]
             ELSE [adjusted |-> baseConfidence, reason |-> "normal"]

\* The confidence values the callers pass: the fallback 0.7 and the default
\* 0.85 of generateRecommendation, and what parseFloat makes of the digits
\* after CONFIDENCE: (0, 0.45, 0.98, 1.5).
BaseConfidences ==
    {Hundredths(n) : n \in {0, 45, 70, 85, 98, 150}}

\* The recommendation_outcomes table as getInsights reads it.
Windows ==
    {w \in [readable : BOOLEAN, total : 0..MaxOutcomes, followups : BOOLEAN,
            yieldError : 0..MaxYieldError] :
        /\ ~w.followups => w.yieldError = 0
        /\ w.total = 0 => ~w.followups}

NoAdjuster == [pc |-> "none", baseConfidence |-> 0,
               window |-> [readable |-> TRUE, total |-> 0, followups |-> FALSE,
                           yieldError |-> 0],
               insights |-> NoInsights, calls |-> << >>]

InitAdjust ==
    adjuster \in {[NoAdjuster EXCEPT !.pc = "idle", !.baseConfidence = b,
                                     !.window = w] :
                    b \in BaseConfidences, w \in Windows}

\* A caller awaits adjustConfidenceBasedOnHistory(baseConfidence, _).
CallAdjust ==
    /\ adjuster.pc = "idle"
    /\ Len(adjuster.calls) < MaxCalls
    /\ adjuster' = [adjuster EXCEPT !.pc = "getInsights"]
    /\ UNCHANGED <<controller, debate, workflow, ledger>>

\* The getInsights call of adjustConfidenceBasedOnHistory returns.
GetInsights ==
    /\ adjuster.pc = "getInsights"
    /\ adjuster' = [adjuster EXCEPT !.pc = "adjust",
                                    !.insights = getInsights(adjuster.window)]
    /\ UNCHANGED <<controller, debate, workflow, ledger>>

\* adjustConfidenceBasedOnHistory returns {adjusted, reason}.
ReturnAdjusted ==
    /\ adjuster.pc = "adjust"
    /\ adjuster' = [adjuster EXCEPT
          !.pc = "idle",
          !.calls = Append(@, [insights |-> adjuster.insights,
                               result |-> adjustConfidenceBasedOnHistory(
                                   adjuster.baseConfidence, adjuster.insights)])]
    /\ UNCHANGED <<controller, debate, workflow, ledger>>

\* recordRecommendation of some run inserts a row (without follow-up).
RecordOutcome ==
    /\ adjuster.pc # "none"
    /\ adjuster.window.readable
    /\ adjuster.window.total < MaxOutcomes
    /\ adjuster' = [adjuster EXCEPT !.window.total = @ + 1]
    /\ UNCHANGED <<controller, debate, workflow, ledger>>

\* ------------------------------------------------- multiAgentDebateService

\* What client.messages.create may do at one stage: reject, resolve with an
\* empty content array, with a text that has none of the markers, or with a
\* text that has them all.
ResponseKinds == {"rejects", "noContent", "noMarkers", "wellFormed"}

\* A capture group of a marker that the text does not have.
NoMatch == ""

\* The capture groups of the text returned at a stage of the debate.
DebateText(stage, kind) ==
    IF kind # "wellFormed"
      THEN [stance |-> NoMatch, reasoning |-> NoMatch, transfer |-> NoMatch,
            confidence |-> NoMatch, synthesis |-> NoMatch,
            recommendation |-> NoMatch, rationale |-> NoMatch]
      ELSE CASE stage = 1 ->
                  [stance |-> "keep the liquidity buffer", reasoning |-> "shortfall risk",
                   transfer |-> "600,000", confidence |-> "0.82",
                   synthesis |-> NoMatch, recommendation |-> NoMatch,
                   rationale |-> NoMatch]
             [] stage = 2 ->
                  [stance |-> "idle cash is lost yield", reasoning |-> "opportunity cost",
                   transfer |-> "1,100,000", confidence |-> "0.85",
                   synthesis |-> NoMatch, recommendation |-> NoMatch,
                   rationale |-> NoMatch]
             [] OTHER ->
                  [stance |-> NoMatch, reasoning |-> NoMatch, transfer |-> NoMatch,
                   confidence |-> "0.9", synthesis |-> "both views have merit",
                   recommendation |-> "move 850,000 to the high-yield account",
                   rationale |-> "coverage stays above policy"]

\* a || b for strings: the empty string and a missing match are falsy.
OrElse(a, b) == IF a = NoMatch THEN b ELSE a

\* parseFloat of the digits of a CONFIDENCE: marker, in confidence units.
ParseConfidence(str) ==
    CASE str = "0.75" -> Hundredths(75)
      [] str = "0.82" -> Hundredths(82)
      [] str = "0.85" -> Hundredths(85)
      [] str = "0.9" -> Hundredths(90)

\* parseFloat(str.replace(/,/g, "")) of the digits of a TRANSFER: marker.
ParseAmount(str) ==
    CASE str = "0" -> 0
      [] str = "600,000" -> 600000
      [] str = "1,100,000" -> 1100000

NoOpinion == [agent |-> "none", stance |-> NoMatch, reasoning |-> NoMatch,
              confidence |-> 0, proposedTransfer |-> 0]

parseOpinion(text, agentName) ==
    [agent |-> agentName,
     stance |-> OrElse(text.stance, "No clear stance"),
     reasoning |-> OrElse(text.reasoning, "No reasoning provided"),
     confidence |-> ParseConfidence(OrElse(text.confidence, "0.75")),
     proposedTransfer |-> ParseAmount(OrElse(text.transfer, "0"))]

NoDecision == [synthesis |-> NoMatch, recommendation |-> NoMatch,
               rationale |-> NoMatch, confidence |-> 0]

\* The object getMediatorSynthesis builds from the matches of its text.
MediatorDecision(text) ==
    [synthesis |-> OrElse(text.synthesis, "Balanced approach recommended"),
     recommendation |-> OrElse(text.recommendation, "balancedMetrics.recommendation"),
     rationale |-> OrElse(text.rationale, "Based on balanced simulation metrics"),
     confidence |-> ParseConfidence(OrElse(text.confidence, "0.85"))]

NoDebate == [pc |-> "none", metrics |-> [m \in Modes |-> FALSE],
             response |-> [s \in 1..3 |-> "rejects"],
             conservative |-> NoOpinion, aggressive |-> NoOpinion,
             finalDecision |-> NoDecision, error |-> NoError]

\* conductDebate is called: metrics[m] tells whether results.get(m) is defined,
\* response[s] what the generator does at stage s.
InitDebate ==
    debate \in {[NoDebate EXCEPT !.pc = "conservative", !.metrics = ms,
                                 !.response = rs] :
                  ms \in [Modes -> BOOLEAN], rs \in [1..3 -> ResponseKinds]}

\* How the stage that formats the metrics of mode m and then awaits the
\* generator (stage s) ends: no statement of a stage is inside a try.
StageError(m, s) ==
    IF ~debate.metrics[m] THEN TypeErrorUndefined
    ELSE IF debate.response[s] = "rejects" THEN GeneratorError
    ELSE IF debate.response[s] = "noContent" THEN TypeErrorUndefined
    ELSE NoError

\* conductDebate rejects with err.
DebateThrows(err) == debate' = [debate EXCEPT !.pc = "threw", !.error = err]

\* Stage 1: getConservativeOpinion settles.
GetConservativeOpinion ==
    /\ debate.pc = "conservative"
    /\ IF StageError("conservative", 1) # NoError
         THEN DebateThrows(StageError("conservative", 1))
         ELSE debate' = [debate EXCEPT
                 !.pc = "aggressive",
                 !.conservative = parseOpinion(DebateText(1, debate.response[1]),
                                               "Conservative Agent")]
    /\ UNCHANGED <<controller, workflow, adjuster, ledger>>

\* Stage 2: getAggressiveOpinion settles.
GetAggressiveOpinion ==
    /\ debate.pc = "aggressive"
    /\ IF StageError("aggressive", 2) # NoError
         THEN DebateThrows(StageError("aggressive", 2))
         ELSE debate' = [debate EXCEPT
                 !.pc = "mediator",
                 !.aggressive = parseOpinion(DebateText(2, debate.response[2]),
                                             "Aggressive Agent")]
    /\ UNCHANGED <<controller, workflow, adjuster, ledger>>

\* Stage 3: getMediatorSynthesis settles and conductDebate returns.
GetMediatorSynthesis ==
    /\ debate.pc = "mediator"
    /\ IF StageError("balanced", 3) # NoError
         THEN DebateThrows(StageError("balanced", 3))
         ELSE debate' = [debate EXCEPT
                 !.pc = "returned",
                 !.finalDecision = MediatorDecision(DebateText(3, debate.response[3]))]
    /\ UNCHANGED <<controller, workflow, adjuster, ledger>>

\* -------------------------------------------------- agenticWorkflowService

\* The agents of executeWorkflow, in the order they are awaited.
Agents == <<"Data Collector", "Historical Analyzer", "Scenario Evaluator",
            "Decision Maker">>
AgentActions == <<"gather_market_data", "analyze_past_outcomes",
                  "evaluate_simulation_modes", "make_final_decision">>

\* The generator call of a stage ends in its catch block: it rejected, or
\* content[0] of its response is undefined.
Caught(kind) == kind \in {"rejects", "noContent"}

\* The confidence of a stage's output: none for stages 1 and 2; for stages 3
\* and 4 the parsed one (0.9 here), 0.8 without a CONFIDENCE: marker, and the
\* fallback 0.7 (stage 3) or 0.75 (stage 4).
StageConfidence(stage, kind) ==
    IF stage <= 2 THEN 0
    ELSE IF Caught(kind) THEN (IF stage = 3 THEN Hundredths(70) ELSE Hundredths(75))
    ELSE IF kind = "noMarkers" THEN Hundredths(80)
    ELSE Hundredths(90)

\* A catch block that returns its fallback without workflow.push.
PushFallbackOmitted(steps, step) == steps

\* workflow.push(step) in the catch block of a stage.
PushFallback(steps, step) == Append(steps, step)

NoWorkflow == [pc |-> 0, response |-> [s \in 2..4 |-> "rejects"],
               steps |-> << >>, now |-> 0, returned |-> FALSE]

\* executeWorkflow is called: response[s] tells what the generator does at
\* stage s (stage 1 makes no generator call).
InitWorkflow ==
    workflow \in {[NoWorkflow EXCEPT !.pc = 1, !.response = rs] :
                    rs \in [2..4 -> ResponseKinds]}

\* The agent of stage workflow.pc settles, dt milliseconds after the previous
\* one: it pushes its step, from the try block or from the catch block, and
\* the next agent is awaited; after the fourth executeWorkflow returns.
RunAgent(dt) ==
    LET stage == workflow.pc
        kind == IF stage = 1 THEN "wellFormed" ELSE workflow.response[stage]
        step == [agent |-> Agents[stage], action |-> AgentActions[stage],
                 fallback |-> Caught(kind),
                 confidence |-> StageConfidence(stage, kind),
                 timestamp |-> workflow.now + dt]
    IN /\ workflow.pc \in 1..Len(Agents)
       /\ ~workflow.returned
       /\ workflow' = [workflow EXCEPT
             !.pc = IF stage = Len(Agents) THEN @ ELSE @ + 1,
             !.returned = (stage = Len(Agents)),
             !.now = @ + dt,
             !.steps = IF Caught(kind) THEN PushFallback(@, step)
                       ELSE Append(@, step)]
       /\ UNCHANGED <<controller, debate, adjuster, ledger>>

\* ---------------------------------------------------- transfersController

Accounts == {"operating", "reserve"}
Amounts == {40, 80}
Transfers == 1..NumTransfers
Executes == 1..NumExecutes

NoTransfer == [from_account_id |-> "none", to_account_id |-> "none", amount |-> 0,
               status |-> "none"]
NoExecute == [pc |-> "absent", id |-> 0, fromBalance |-> 0, toBalance |-> 0,
              status |-> 0]

LedgerIdle ==
    /\ accounts = [a \in Accounts |-> OpeningBalance]
    /\ transfers = [t \in Transfers |-> NoTransfer]
    /\ executing = [c \in Executes |-> NoExecute]

\* The rows transfersController.create inserts: both accounts exist and the
\* source holds the amount at the time.
PendingTransfers ==
    {[from_account_id |-> f, to_account_id |-> t, amount |-> a, status |-> "pending"] :
        f \in Accounts, t \in Accounts, a \in {x \in Amounts : x <= OpeningBalance}}

InitLedger ==
    /\ accounts = [a \in Accounts |-> OpeningBalance]
    /\ transfers \in [Transfers -> PendingTransfers]
    /\ executing = [c \in Executes |-> [NoExecute EXCEPT !.pc = "idle"]]

\* res.status(status).json(...): the call is over.
Reply(c, status) ==
    executing' = [executing EXCEPT ![c].pc = "responded", ![c].status = status]

\* POST /transfers/:id/execute arrives; the handler awaits getTransferById.
Execute(c, id) ==
    /\ executing[c].pc = "idle"
    /\ executing' = [executing EXCEPT ![c].pc = "getTransferById", ![c].id = id]
    /\ UNCHANGED <<controller, debate, workflow, adjuster, accounts, transfers>>

\* getTransferById returns the row, or null on an error; the status is tested.
GetTransferById(c, found) ==
    /\ executing[c].pc = "getTransferById"
    /\ IF ~found THEN Reply(c, 404)
       ELSE IF transfers[executing[c].id].status # "pending" THEN Reply(c, 400)
       ELSE executing' = [executing EXCEPT ![c].pc = "getFromAccount"]
    /\ UNCHANGED <<controller, debate, workflow, adjuster, accounts, transfers>>

\* getAccountById(transfer.from_account_id) returns the row or throws.
GetFromAccount(c, ok) ==
    /\ executing[c].pc = "getFromAccount"
    /\ IF ok
         THEN executing' = [executing EXCEPT
                  ![c].pc = "getToAccount",
                  ![c].fromBalance = accounts[transfers[executing[c].id].from_account_id]]
         ELSE Reply(c, 500)
    /\ UNCHANGED <<controller, debate, workflow, adjuster, accounts, transfers>>

\* getAccountById(transfer.to_account_id) returns the row or throws; then the
\* balance read from the source account is checked against the amount.
GetToAccount(c, ok) ==
    /\ executing[c].pc = "getToAccount"
    /\ LET transfer == transfers[executing[c].id]
       IN IF ok
            THEN executing' = [executing EXCEPT
                     ![c].pc = IF executing[c].fromBalance < transfer.amount
                                 THEN "markFailed" ELSE "debit",
                     ![c].toBalance = accounts[transfer.to_account_id]]
            ELSE Reply(c, 500)
    /\ UNCHANGED <<controller, debate, workflow, adjuster, accounts, transfers>>

\* updateTransferStatus(id, "failed") settles: 400, or 500 when it threw.
MarkFailed(c, ok) ==
    /\ executing[c].pc = "markFailed"
    /\ transfers' = IF ok THEN [transfers EXCEPT ![executing[c].id].status = "failed"]
                    ELSE transfers
    /\ Reply(c, IF ok THEN 400 ELSE 500)
    /\ UNCHANGED <<controller, debate, workflow, adjuster, accounts>>

\* updateAccountBalance(fromAccount.id, fromAccount.balance - transfer.amount)
\* settles: the balance read earlier, less the amount, is written.
Debit(c, ok) ==
    /\ executing[c].pc = "debit"
    /\ LET transfer == transfers[executing[c].id]
       IN IF ok
            THEN /\ accounts' = [accounts EXCEPT ![transfer.from_account_id] =
                                    executing[c].fromBalance - transfer.amount]
                 /\ executing' = [executing EXCEPT ![c].pc = "credit"]
            ELSE Reply(c, 500) /\ UNCHANGED accounts
    /\ UNCHANGED <<controller, debate, workflow, adjuster, transfers>>

\* updateAccountBalance(toAccount.id, toAccount.balance + transfer.amount)
\* settles.
Credit(c, ok) ==
    /\ executing[c].pc = "credit"
    /\ LET transfer == transfers[executing[c].id]
       IN IF ok
            THEN /\ accounts' = [accounts EXCEPT ![transfer.to_account_id] =
                                    executing[c].toBalance + transfer.amount]
                 /\ executing' = [executing EXCEPT ![c].pc = "markExecuted"]
            ELSE Reply(c, 500) /\ UNCHANGED accounts
    /\ UNCHANGED <<controller, debate, workflow, adjuster, transfers>>

\* updateTransferStatus(id, "executed", now) settles: 200, or 500 when it threw.
MarkExecuted(c, ok) ==
    /\ executing[c].pc = "markExecuted"
    /\ transfers' = IF ok THEN [transfers EXCEPT ![executing[c].id].status = "executed"]
                    ELSE transfers
    /\ Reply(c, IF ok THEN 200 ELSE 500)
    /\ UNCHANGED <<controller, debate, workflow, adjuster, accounts>>

\* ---------------------------------------------------------- specifications

\* Request bodies: any non-empty selection of the modes, in the default order.
ModeSets == SUBSET Modes \ {{}}

\* The steps of a runScenarios call whose body names one of `bodies`.
RunScenarios(r, bodies) ==
    \/ \E ms \in bodies : Arrive(r, ms)
    \/ \E isHealthy \in BOOLEAN : HealthCheck(r, isHealthy)
    \/ \E fetched \in {"ok", "noPolicy", "noAccounts", "error"} : FetchData(r, fetched)
    \/ \E created \in SUBSET modes[r] : CreateRecords(r, created)

\* The steps every processScenarios call can take in the standard branch, the
\* Simulation Provider answering with results of the given kinds.
ProcessScenarios(r, kinds) ==
    \/ \E m \in Modes : RunningLands(r, m)
    \/ \E m \in Modes : RunningFails(r, m)
    \/ \E thrown \in BOOLEAN : \E res \in SimulationResults(r, kinds) : Simulate(r, thrown, res)
    \/ \E ok \in BOOLEAN : NoResultFailed(r, ok)
    \/ Generate(r)
    \/ \E ok \in BOOLEAN : Record(r, ok)
    \/ \E ok \in BOOLEAN : Link(r, ok)
    \/ \E ok \in BOOLEAN : Complete(r, ok)
    \/ \E ok \in BOOLEAN : EvalLog(r, ok)
    \/ \E m \in Modes : FailedLands(r, m)
    \/ \E m \in Modes : FailedFails(r, m)

\* The steps of the workflow and debate branches.
ProcessPipelines(r) ==
    \/ ExecuteWorkflow(r)
    \/ \E failStage \in 0..3 : ConductDebate(r, failStage)
    \/ \E ok \in BOOLEAN : PrimaryRecord(r, ok)
    \/ \E ok \in BOOLEAN : PrimaryUpdate(r, ok)
    \/ \E ok \in BOOLEAN : PrimaryLink(r, ok)

\* Nothing calls the services on their own in the controller specifications.
ServicesIdle ==
    debate = NoDebate /\ workflow = NoWorkflow /\ adjuster = NoAdjuster /\ LedgerIdle
\* No request arrives in the specifications of one service.
ControllerIdle == InitWith({}, {1}, {FALSE}, {TRUE})

\* Concurrent requests for one mode under the default configuration: no AI
\* mode flag set, historical learning on.
Init == InitWith(Requests, 1..MaxCapacity, {FALSE}, {TRUE}) /\ ServicesIdle
Next ==
    \/ \E r \in Requests : RunScenarios(r, {{"balanced"}})
    \/ \E r \in Requests : ProcessScenarios(r, PositiveAmountKinds)
    \/ Sweep
Spec == Init /\ [][Next]_vars

\* One batch, every configuration and every request body; a result that
\* carries transferDetails names a positive amount.
InitBatch == InitWith(1..NumBatchRequests, {1}, BOOLEAN, BOOLEAN) /\ ServicesIdle
NextBatch ==
    \/ \E r \in Requests : RunScenarios(r, ModeSets)
    \/ \E r \in Requests : ProcessScenarios(r, PositiveAmountKinds)
    \/ \E r \in Requests : ProcessPipelines(r)
    \/ Sweep
SpecBatch == InitBatch /\ [][NextBatch]_vars

\* The sweep timer keeps firing while the server runs.
FairSpecBatch == SpecBatch /\ WF_vars(Sweep)

\* Every awaited call of a handler or of a batch task settles and its
\* continuation runs, and the sweep timer keeps firing.
FairSpecSettling ==
    /\ SpecBatch
    /\ \A r \in 1..NumBatchRequests :
          /\ WF_vars(RunScenarios(r, ModeSets))
          /\ WF_vars(ProcessScenarios(r, PositiveAmountKinds))
          /\ WF_vars(ProcessPipelines(r))
    /\ WF_vars(Sweep)

\* One batch with historical learning on, every strategy and every request
\* body; a result may carry transferDetails whose amount is 0.
InitLearning == InitWith(1..NumBatchRequests, {1}, BOOLEAN, {TRUE}) /\ ServicesIdle
NextLearning ==
    \/ \E r \in Requests : RunScenarios(r, ModeSets)
    \/ \E r \in Requests : ProcessScenarios(r, ResultKinds)
    \/ \E r \in Requests : ProcessPipelines(r)
    \/ Sweep
SpecLearning == InitLearning /\ [][NextLearning]_vars

\* Calls of adjustConfidenceBasedOnHistory over every base confidence and
\* every content of the recommendation_outcomes table.
InitAdjuster ==
    ControllerIdle /\ InitAdjust /\ debate = NoDebate /\ workflow = NoWorkflow /\ LedgerIdle
NextAdjuster == CallAdjust \/ GetInsights \/ ReturnAdjusted \/ RecordOutcome
SpecAdjuster == InitAdjuster /\ [][NextAdjuster]_vars

\* One call of conductDebate over every Map of results and every generator
\* behaviour.
InitDebateCall ==
    ControllerIdle /\ InitDebate /\ workflow = NoWorkflow /\ adjuster = NoAdjuster /\ LedgerIdle
NextDebateCall == GetConservativeOpinion \/ GetAggressiveOpinion \/ GetMediatorSynthesis
SpecDebate == InitDebateCall /\ [][NextDebateCall]_vars

\* One call of executeWorkflow over every generator behaviour.
InitWorkflowCall ==
    ControllerIdle /\ InitWorkflow /\ debate = NoDebate /\ adjuster = NoAdjuster /\ LedgerIdle
NextWorkflowCall == \E dt \in 0..1 : RunAgent(dt)
SpecWorkflow == InitWorkflowCall /\ [][NextWorkflowCall]_vars

\* Concurrent execute calls over every choice of pending transfers.
InitTransfers ==
    /\ ControllerIdle
    /\ debate = NoDebate /\ workflow = NoWorkflow /\ adjuster = NoAdjuster
    /\ InitLedger
NextTransfers ==
    \E c \in Executes :
        \/ \E id \in Transfers : Execute(c, id)
        \/ \E found \in BOOLEAN : GetTransferById(c, found)
        \/ \E ok \in BOOLEAN : GetFromAccount(c, ok)
        \/ \E ok \in BOOLEAN : GetToAccount(c, ok)
        \/ \E ok \in BOOLEAN : MarkFailed(c, ok)
        \/ \E ok \in BOOLEAN : Debit(c, ok)
        \/ \E ok \in BOOLEAN : Credit(c, ok)
        \/ \E ok \in BOOLEAN : MarkExecuted(c, ok)
SpecTransfers == InitTransfers /\ [][NextTransfers]_vars

\* ------------------------------------------------------------------ claims

Terminal == {"completed", "failed"}

\* C1: the number of keys in activeRuns never exceeds MAX_CONCURRENT_RUNS.
\* Violated: the capacity check and the insertion are separated by awaits.
OccupancyWithinCapacity == Size <= MAX_CONCURRENT_RUNS

\* C2: a request that arrives while activeRuns.size has reached the capacity
\* is answered 429 with activeRuns = the current size in the same step, which
\* changes neither the rows, the admission set nor any background task; and a
\* request answered 429 never owns a row, a slot or a task.
RejectedRequestStep(r) ==
    (pc[r] = "idle" /\ pc'[r] # "idle" /\ Size >= MAX_CONCURRENT_RUNS)
      => /\ pc'[r] = "responded"
         /\ response'[r] = [status |-> 429, activeRuns |-> Size]
         /\ UNCHANGED <<batch, store, admission>>
RejectedRequestIdle(r) ==
    response[r].status = 429
      => /\ \A m \in Modes : runs[r][m] = NoRun
         /\ ppc[r] = "none"
         /\ generated[r] = {}
         /\ pipeline[r] = "none"
         /\ r \notin DOMAIN activeRuns \cup finallyKeys \cup sweptKeys
RejectedAtCapacity ==
    /\ [](\A r \in Requests : RejectedRequestIdle(r))
    /\ [][\A r \in Requests : RejectedRequestStep(r)]_vars
RejectedAtCapacityWitness ==
    \E r \in Requests :
        /\ response[r] = [status |-> 429, activeRuns |-> MAX_CONCURRENT_RUNS]
        /\ Size = MAX_CONCURRENT_RUNS

\* C3: a key in activeRuns is eventually removed, and it is gone whenever its
\* background task has settled, whichever way the task ended.
SlotEventuallyReleased ==
    /\ [](\A r \in Requests : ppc[r] = "done" => r \notin DOMAIN activeRuns)
    /\ \A r \in Requests : (r \in DOMAIN activeRuns) ~> (r \notin DOMAIN activeRuns)
SlotEventuallyReleasedWitness ==
    \E r \in Requests :
        /\ escaped[r]
        /\ r \in finallyKeys \ sweptKeys
        /\ r \notin DOMAIN activeRuns

\* C4: no key is released both by the sweep and by the completion cleanup.
\* Violated: a batch that outlives the stale threshold is swept, and its
\* .finally later runs activeRuns.delete for the key that is already gone.
ReleasedExactlyOnce == sweptKeys \cap finallyKeys = {}

\* C5: a row that is completed or failed keeps its status.
\* Violated: the catch block of processScenarios marks every row of the batch
\* failed, the completed ones included.
TerminalIsFinal ==
    [][\A r \in Requests, m \in Modes :
         runs[r][m].status \in Terminal => runs'[r][m].status = runs[r][m].status]_vars

CompletedHasContent ==
    \A r \in Requests, m \in Modes :
        runs[r][m].status = "completed"
          => runs[r][m].recommendation /\ runs[r][m].metrics

\* C8: once a batch has been processed without an exception, every run whose
\* mode has no simulation result is failed with the no-result reason and no
\* generator call was made for it.
\* Violated: the sibling loops of the workflow and debate branches skip such
\* a run, which stays running.
NoResultRunFailed ==
    \A r \in Requests : \A m \in modes[r] :
        (ppc[r] = "done" /\ caught[r] = NoError /\ results[r][m] = "missing")
          => /\ runs[r][m].status = "failed"
             /\ runs[r][m].error_message = NoResultError
             /\ m \notin generated[r]

\* C9: when the completion cleanup has released the slot of a batch, no run
\* of the batch is pending or running.
\* Violated: runs skipped by a sibling loop, and runs whose "failed" update
\* of the catch block failed or has not landed yet.
ReleasedBatchIsTerminal ==
    \A r \in finallyKeys : \A m \in modes[r] : runs[r][m].status \in Terminal

\* C10: after an exception in processScenarios, once the task has settled and
\* the updates of its catch block have settled too, no run of the batch is
\* open, the error did not leave processScenarios and the slot is released.
\* Violated: a "failed" update of the catch block fails (the store is still
\* down), the error leaves processScenarios and the run stays open.
BatchErrorFailsOpenRuns ==
    \A r \in Requests :
        (ppc[r] = "done" /\ caught[r] # NoError /\ inflightFail[r] = {})
          => /\ \A m \in modes[r] :
                   /\ runs[r][m].status = "failed"
                   /\ runs[r][m].completed_at
                   /\ runs[r][m].error_message = caught[r]
             /\ ~escaped[r]
             /\ r \notin DOMAIN activeRuns

\* C11: no run is failed because a generator call failed: no row carries the
\* generator's error and no catch block of processScenarios caught it.
\* Violated: the three stages of conductDebate await the generator outside any
\* try, so its rejection reaches the catch block, which fails every run.
GeneratorFailureRecovered ==
    \A r \in Requests :
        /\ caught[r] # GeneratorError
        /\ \A m \in Modes : runs[r][m].error_message # GeneratorError

\* C12: every request that arrives is passed to the health check first,
\* whatever the occupancy, and a request answered 503 has no row, no slot and
\* no task.
\* Violated: the capacity check precedes the health check, so at capacity the
\* request is answered 429 and the health check is never made.
UnhealthyRequestIdle(r) ==
    response[r].status = 503
      => /\ \A m \in Modes : runs[r][m] = NoRun
         /\ ppc[r] = "none"
         /\ r \notin DOMAIN activeRuns \cup finallyKeys \cup sweptKeys
HealthCheckedBeforeAdmission ==
    /\ [](\A r \in Requests : UnhealthyRequestIdle(r))
    /\ [][\A r \in Requests :
            (pc[r] = "idle" /\ pc'[r] # "idle") => pc'[r] = "health"]_vars

\* C13: when the provider returned results for some modes of a batch and none
\* for others, and no store or provider call failed, the settled batch has
\* exactly the runs of the missing modes failed (with the no-result reason)
\* and every other run completed.
\* Violated: conductDebate throws on the missing metrics and every run of the
\* batch is failed; the workflow branch leaves the missing siblings running.
PartialResults(r) ==
    /\ \E m \in modes[r] : results[r][m] = "missing"
    /\ \E m \in modes[r] : results[r][m] \in {"noTransfer", "transfer"}
MissingResultFailsAlone ==
    \A r \in Requests :
        (ppc[r] = "done" /\ PartialResults(r)
           /\ caught[r] \in {NoError, TypeErrorUndefined})
          => \A m \in modes[r] :
                IF results[r][m] = "missing"
                  THEN /\ runs[r][m].status = "failed"
                       /\ runs[r][m].error_message = NoResultError
                  ELSE runs[r][m].status = "completed"

\* C14: the strategy that ran for a batch is the one the flags select
\* (workflow first, then debate, else none); under a multi-stage strategy the
\* balanced run is never passed to processStandardScenario; no run is passed
\* to it twice; and in a batch that was processed without an exception every
\* other run went through the baseline path.
\* Violated (by the defect of C8): the sibling loop of the workflow and debate
\* branches skips a run without result, which no path processes.
SelectedStrategy ==
    IF useAgenticWorkflow THEN "workflow"
    ELSE IF useMultiAgentDebate THEN "debate" ELSE "none"
StrategyApplied(r) ==
    /\ pipeline[r] \in {"none", SelectedStrategy}
    /\ ppc[r] \in {"primaryRecord", "primaryUpdate", "primaryLink", "loop"}
         => pipeline[r] = SelectedStrategy
    /\ ~StandardMode => "balanced" \notin generated[r]
    /\ (ppc[r] = "done" /\ caught[r] = NoError)
         => \A m \in modes[r] \ (IF StandardMode THEN {} ELSE {"balanced"}) :
               \/ m \in generated[r]
               \/ runs[r][m].error_message = NoResultError
OneStrategyPerBatch ==
    /\ [](\A r \in Requests : StrategyApplied(r))
    /\ [][\A r \in Requests :
            generated'[r] # generated[r]
              => /\ cur[r] \notin generated[r]
                 /\ generated'[r] = generated[r] \cup {cur[r]}]_vars

\* C15: a call of conductDebate with the three metrics, whose generator
\* calls all resolve, never throws; it returns both opinions and the synthesis;
\* and a stage whose text has no marker contributes the placeholder: stance
\* "No clear stance" (stages 1 and 2), confidence 0.75, transfer 0.
\* Violated: a response with an empty content array throws a TypeError, and
\* the mediator's fallback confidence is 0.85.
GeneratorResolves == \A s \in 1..3 : debate.response[s] # "rejects"
MetricsPresent == \A m \in Modes : debate.metrics[m]
Placeholder(opinion) ==
    /\ opinion.stance = "No clear stance"
    /\ opinion.confidence = Hundredths(75)
    /\ opinion.proposedTransfer = 0
DebateAlwaysComplete ==
    (debate.pc # "none" /\ GeneratorResolves /\ MetricsPresent)
      => /\ debate.pc # "threw"
         /\ debate.pc = "returned"
              => /\ debate.conservative.agent = "Conservative Agent"
                 /\ debate.aggressive.agent = "Aggressive Agent"
                 /\ debate.finalDecision.synthesis # NoMatch
                 /\ debate.response[1] = "noMarkers" => Placeholder(debate.conservative)
                 /\ debate.response[2] = "noMarkers" => Placeholder(debate.aggressive)
                 /\ debate.response[3] = "noMarkers"
                      => debate.finalDecision.confidence = Hundredths(75)

\* C16: the trace of executeWorkflow always is a prefix of the four agents in
\* their order, with timestamps that never decrease; it has all four steps when
\* executeWorkflow has returned, whatever the generator did at stages 2 to 4;
\* and each step of the call appends exactly the step of the agent that
\* follows the last one appended.
WorkflowTraceOrdered ==
    /\ Len(workflow.steps) <= Len(Agents)
    /\ \A i \in 1..Len(workflow.steps) :
          /\ workflow.steps[i].agent = Agents[i]
          /\ workflow.steps[i].action = AgentActions[i]
          /\ workflow.steps[i].timestamp \in 0..workflow.now
          /\ i > 1 => workflow.steps[i - 1].timestamp <= workflow.steps[i].timestamp
    /\ workflow.returned => Len(workflow.steps) = Len(Agents)
    /\ workflow.pc \in 1..Len(Agents) /\ ~workflow.returned
         => Len(workflow.steps) = workflow.pc - 1
WorkflowTraceComplete ==
    /\ []WorkflowTraceOrdered
    /\ [][/\ Len(workflow.steps') = Len(workflow.steps) + 1
          /\ workflow.steps'[Len(workflow.steps')].agent = Agents[workflow.pc]
          /\ \A i \in 1..Len(workflow.steps) : workflow.steps'[i] = workflow.steps[i]
         ]_workflow
WorkflowTraceCompleteWitness ==
    /\ workflow.returned
    /\ \A s \in 2..4 : Caught(workflow.response[s]) /\ workflow.steps[s].fallback
    /\ workflow.response[2] # workflow.response[4]
    /\ Len(workflow.steps) = 4
    /\ workflow.steps[1].timestamp < workflow.steps[4].timestamp

ReferencePolicy(base, e) ==
    CASE e < 15 -> Min(600, base + Min(30, 3 * (15 - e)))
      [] e > 50 -> Max(300, base - Min(90, 2 * (e - 50)))
      [] OTHER -> base
AdjusterStepKeepsRows ==
    adjuster'.calls # adjuster.calls \/ adjuster'.insights # adjuster.insights
      => adjuster'.window = adjuster.window
AdjusterDeterministicInRange ==
    /\ [](\A i, j \in 1..Len(adjuster.calls) :
            adjuster.calls[i].insights = adjuster.calls[j].insights
              => adjuster.calls[i].result = adjuster.calls[j].result)
    /\ [](\A i \in 1..Len(adjuster.calls) :
            adjuster.calls[i].result.adjusted \in 0..ConfidenceUnits)
    /\ [][AdjusterStepKeepsRows]_vars

\* C20: a failing read of the statistics makes adjustConfidenceBasedOnHistory
\* return the base confidence; and a step of the learning block (record, link),
\* failed or not, writes no run, throws nothing and leaves the task at the
\* position from which the run is completed.
UnreadableWindows ==
    {[readable |-> FALSE, total |-> MaxOutcomes, followups |-> TRUE,
      yieldError |-> e] : e \in {0, MaxYieldError}}
LearningStep(r) ==
    /\ \/ ppc[r] = "loop" /\ spc[r] \in {"record", "link"}
       \/ ppc[r] \in {"primaryRecord", "primaryLink"}
    /\ <<ppc[r], spc[r]>>' # <<ppc[r], spc[r]>>
LearningStepNeutral(r) ==
    LearningStep(r)
      => /\ runs'[r] = runs[r]
         /\ caught'[r] = caught[r]
         /\ escaped'[r] = escaped[r]
         /\ inflightFail'[r] = inflightFail[r]
         /\ spc[r] = "record" => ppc'[r] = "loop" /\ spc'[r] \in {"link", "complete"}
         /\ spc[r] = "link" => ppc'[r] = "loop" /\ spc'[r] = "complete"
         /\ ppc[r] = "primaryRecord" => ppc'[r] = "primaryUpdate"
         /\ ppc[r] = "primaryLink" => ppc'[r] \in {"loop", "done"}
LearningOutageHarmless ==
    /\ [](\A b \in BaseConfidences : \A w \in UnreadableWindows :
            adjustConfidenceBasedOnHistory(b, getInsights(w)).adjusted = b)
    /\ [][\A r \in Requests : LearningStepNeutral(r)]_vars
LearningOutageHarmlessWitness ==
    \E r \in Requests : \E m \in modes[r] :
        /\ useHistoricalLearning
        /\ results[r][m] = "transfer"
        /\ m \in generated[r]
        /\ outcomes[r][m] = 0
        /\ ~linked[r][m]
        /\ runs[r][m].status = "completed"

\* C21: with learning on, no run has more than one recommendation_outcomes
\* row; a row exists only for a run whose result names a non-zero transfer
\* amount; and once the batch task is over, a completed run whose result
\* names a non-zero amount has exactly one row, linked to it.
\* Violated: the row is written whenever transferDetails is present, its
\* amount being recorded as `amount || 0`.
OneOutcomePerActionableRun ==
    \A r \in Requests : \A m \in Modes :
        /\ outcomes[r][m] <= 1
        /\ outcomes[r][m] > 0 => results[r][m] = "transfer"
        /\ ( /\ useHistoricalLearning
             /\ ppc[r] = "done"
             /\ runs[r][m].status = "completed"
             /\ results[r][m] = "transfer" )
             => outcomes[r][m] = 1 /\ linked[r][m]

\* C22: a request answered 200 was admitted and has one scenario record per
\* requested mode; the 200 is sent in the step that starts the batch task, so
\* no simulation result, generator call or pipeline call of the batch precedes
\* it; and a response once sent is never replaced, whatever the task does.
Admitted(r) == r \in DOMAIN activeRuns \cup finallyKeys \cup sweptKeys
TaskProgress(r) ==
    results[r] # NoResults \/ generated[r] # {} \/ pipeline[r] # "none"
ResponseKept(r) == response[r] # NoResponse => response'[r] = response[r]
AcceptedBeforeWork ==
    /\ [](\A r \in Requests :
            response[r].status = 200
              => /\ Admitted(r)
                 /\ \A m \in Modes : m \in modes[r] <=> runs[r][m].status # "none")
    /\ [](\A r \in Requests :
            ppc[r] # "none" \/ TaskProgress(r) => response[r].status = 200)
    /\ [][\A r \in Requests :
            response'[r].status = 200 /\ response[r].status # 200
              => ~TaskProgress(r)']_vars
    /\ [][\A r \in Requests : ResponseKept(r)]_vars
AcceptedBeforeWorkWitness ==
    \E r \in Requests :
        /\ response[r].status = 200
        /\ TaskProgress(r)
        /\ ppc[r] = "done"
        /\ escaped[r]

\* C23: what a reader of scenario_runs finds in any state: the records of one
\* batch are never some pending and some running.
\* Violated: processScenarios issues one "running" update per record under
\* Promise.all, and each update lands on its own.
PendingToRunningAtomic ==
    \A r \in Requests :
        ~ \E m1, m2 \in modes[r] :
            /\ runs[r][m1].status = "pending"
            /\ runs[r][m2].status = "running"

\* C24: with learning on, under every strategy, a run whose result names a
\* transfer is completed only after adjustConfidenceBasedOnHistory was applied
\* to its confidence, and the confidence written to a recommendation_outcomes
\* row is always an adjusted one.
\* Violated: the workflow and debate branches record and emit the pipeline's
\* own confidence for the balanced run.
AdjustedUnderEveryStrategy ==
    \A r \in Requests : \A m \in modes[r] :
        /\ ( /\ useHistoricalLearning
             /\ results[r][m] = "transfer"
             /\ runs[r][m].status = "completed" ) => m \in adjusted[r]
        /\ outcomes[r][m] > 0 => m \in adjusted[r]

\* C25: in every state a recommendation_outcomes row, and a link to one,
\* belongs to a run that is completed.
\* Violated: recordRecommendation is awaited before the "completed" update
\* in every branch, so the row exists while the run is running, and stays
\* when the completion fails and the run ends failed.
OutcomeOnlyForCompleted ==
    \A r \in Requests : \A m \in Modes :
        outcomes[r][m] > 0 \/ linked[r][m] => runs[r][m].status = "completed"

\* C26: when no row of the window has a follow-up measurement, every call
\* returns the base confidence, however many rows the window holds.
\* Violated: getInsights reports a mean yield error of 0 for a window without
\* follow-ups, which the boost rule reads as perfect accuracy.
BoostOnlyOnMeasuredEvidence ==
    ~adjuster.window.followups
      => \A i \in 1..Len(adjuster.calls) :
            adjuster.calls[i].result.adjusted = adjuster.baseConfidence

\* C27: for a base confidence within [0, 1], a call that read a mean yield
\* error above 50 bps returns at most the base, and a call that read one below
\* 15 bps returns at least the base.
\* Violated: the penalty rule returns Math.max(0.5, base - penalty), which is
\* above a base below 0.5.
AdjustmentDirection ==
    adjuster.baseConfidence \in 0..ConfidenceUnits
      => \A i \in 1..Len(adjuster.calls) :
            LET call == adjuster.calls[i]
            IN /\ call.insights.avgYieldError > INACCURATE_BPS
                    => call.result.adjusted <= adjuster.baseConfidence
               /\ call.insights.avgYieldError < ACCURATE_BPS
                    => call.result.adjusted >= adjuster.baseConfidence

\* C28: every scenario record that is pending eventually is not pending any
\* more, whichever inserts of the batch failed.
\* Violated: when an insert of the batch fails, runScenarios answers 500 from
\* its catch block and starts no task; the rows the other inserts created are
\* written by nothing afterwards.
CreatedLeavesPending ==
    \A r \in Requests : \A m \in Modes :
        runs[r][m].status = "pending" ~> runs[r][m].status # "pending"

\* C29: with every transfer going from one account to another, whenever no
\* execute call is under way the balances of all accounts add up to what
\* they added up to before any call: every call, whether it answered 200 or
\* an error, left the sum of its source and destination balances as it was.
\* Violated: the debit and the credit are two separate updates that write
\* balances computed from an earlier read.
RECURSIVE SumOver(_, _)
SumOver(bal, ids) ==
    IF ids = {} THEN 0
    ELSE LET a == CHOOSE x \in ids : TRUE
         IN bal[a] + SumOver(bal, ids \ {a})
UnderWay(c) == executing[c].pc \notin {"absent", "idle", "responded"}
TwoAccounts(t) == transfers[t].from_account_id # transfers[t].to_account_id
FundsConserved ==
    (\A t \in Transfers : TwoAccounts(t)) /\ (\A c \in Executes : ~UnderWay(c))
      => SumOver(accounts, Accounts) = Cardinality(Accounts) * OpeningBalance

====
